---- MODULE Spec2Model ----
(***************************************************************************)
(* FlowGauge: the multi-WAN sweep (MultiWANRunner / Runner), the scheduled  *)
(* job that feeds the result sink (SpeedtestJob) and the cron-driven        *)
(* Scheduler.                                                               *)
(*                                                                          *)
(* Spec      : one call on a MultiWANRunner built from a connection list:   *)
(*             SpeedtestJob.RunWithContext (RunAll + sink) or RunConnection.*)
(* SchedSpec : the Scheduler (Start / Stop / TriggerNow / timer fires) with *)
(*             the sweeps it launches.                                      *)
(***************************************************************************)
EXTENDS Integers, Sequences, FiniteSets, TLC

\* ---------------------------------------------------------------- bounds
\* longest connection list handed to NewMultiWANRunner
MaxConns == 3
\* most sweeps one Scheduler launches in a behaviour
MaxSweeps == 3
\* most cron entries the model lets Start register
MaxEntries == 2

\* ------------------------------------------------------------- variables
VARIABLES
    \* --- runner side
    configs,      \* []config.ConnectionConfig handed to NewMultiWANRunner
    parallel,     \* MultiWANRunner.parallel
    call,         \* the call under way: RunWithContext or RunConnection(name)
    connections,  \* MultiWANRunner.connections
    ctxErr,       \* ctx.Err(): "" while the context is live
    pc,           \* position of the call
    idx,          \* runSequential: index of the connection being handled
    probes,       \* one Runner.Run activation per connection
    resultsChan,  \* runParallel: the buffered results channel
    results,      \* the []Result RunAll returned (or is building)
    retErr,       \* the error RunAll / RunConnection returned
    retResult,    \* the *Result RunConnection returned
    sink,         \* what the job handed to metrics and storage
    startedAtCancel, \* probes already started when the context ended (-1: never)
    warned,       \* connections NewMultiWANRunner logged a source-IP warning for
    \* --- scheduler side
    cfgEnabled,   \* SchedulerConfig.Enabled
    cfgValid,     \* SchedulerConfig.Schedule parses
    running,      \* Scheduler.running
    jobID,        \* Scheduler.jobID
    entries,      \* number of entries registered in the cron instance
    cronRunning,  \* the cron loop is started
    mu,           \* holder of Scheduler.mu
    sweeps,       \* the SpeedtestJob.Run activations launched so far
    lastCall,     \* the last Scheduler call that returned, and its error
    \* --- dialer side
    dial          \* one DSCPDialer and the connection it is making

runnerVars == <<configs, parallel, call, connections, ctxErr, pc, idx, probes,
                resultsChan, results, retErr, retResult, sink,
                startedAtCancel, warned>>
schedVars == <<cfgEnabled, cfgValid, running, jobID, entries, cronRunning, mu,
               sweeps, lastCall>>
dialVars == <<dial>>
vars == <<configs, parallel, call, connections, ctxErr, pc, idx, probes,
          resultsChan, results, retErr, retResult, sink, startedAtCancel,
          warned,
          cfgEnabled, cfgValid, running, jobID, entries, cronRunning, mu,
          sweeps, lastCall, dial>>

\* ------------------------------------------------------------ data types
\* names, source addresses and DSCP values of the i-th configured connection
ConnNames == <<"A", "B", "C", "D", "E">>
ConnSourceIPs == <<"", "192.168.2.100", "10.255.255.255", "", "not-an-ip">>
ConnDSCPs == <<0, 46, 0, 64, 0>>

\* addresses net.ParseIP accepts
ParsesAsIP(ip) == ip \in {"192.168.2.100", "10.255.255.255"}
\* addresses present on a local interface (net.InterfaceAddrs)
Assignable(ip) == ip \in {"192.168.2.100"}

\* rates the measurement client may report after a download / upload test
Rates == {0, 1}

NoResult == [ConnectionName |-> "<nil>"]

\* the zero value of speedtest.Result
ZeroResult ==
    [ConnectionName |-> "", SourceIP |-> "", DSCP |-> 0,
     ServerID |-> 0, ServerName |-> "",
     LatencyMs |-> 0, JitterMs |-> 0, DownloadMbps |-> 0, UploadMbps |-> 0,
     PacketLossPct |-> 0, Timestamp |-> 0, Duration |-> 0, Error |-> ""]

IsError(r) == r.Error # ""

IdleProbe == [pc |-> "idle", result |-> NoResult, err |-> ""]

\* ------------------------------------------------------------ operators
\* a constructor that forgets the Enabled test
EnabledOf_KeepsDisabled(cs) ==
    [i \in 1..Len(cs) |-> [Name |-> cs[i].Name, SourceIP |-> cs[i].SourceIP,
                           DSCP |-> cs[i].DSCP, Enabled |-> cs[i].Enabled]]

RECURSIVE EnabledOf(_)
\* NewMultiWANRunner's loop: keep the enabled connections, in order
EnabledOf(cs) ==
    IF cs = <<>> THEN <<>>
    ELSE IF ~Head(cs).Enabled THEN EnabledOf(Tail(cs))
    ELSE <<[Name |-> Head(cs).Name, SourceIP |-> Head(cs).SourceIP,
            DSCP |-> Head(cs).DSCP, Enabled |-> Head(cs).Enabled]>>
         \o EnabledOf(Tail(cs))

\* a dialer constructor without the range test on the code point
NewDSCPDialer_NoRangeCheck(dscp, sourceIP) ==
    IF sourceIP # "" /\ ~ParsesAsIP(sourceIP) THEN "invalid source IP address"
    ELSE ""

\* NewDSCPDialer: "" when the dialer is built, else the error
NewDSCPDialer(dscp, sourceIP) ==
    IF dscp < 0 \/ dscp > 63 THEN "DSCP value must be between 0 and 63"
    ELSE IF sourceIP # "" /\ ~ParsesAsIP(sourceIP) THEN "invalid source IP address"
    ELSE ""

\* a lookup that falls back to the first connection
FindConn_DefaultsToFirst(conns, name) ==
    IF \E i \in 1..Len(conns) : conns[i].Name = name
    THEN CHOOSE i \in 1..Len(conns) :
            conns[i].Name = name /\ \A j \in 1..(i-1) : conns[j].Name # name
    ELSE IF Len(conns) > 0 THEN 1 ELSE 0

\* index of the first connection named name, 0 when there is none
FindConn(conns, name) ==
    IF \E i \in 1..Len(conns) : conns[i].Name = name
    THEN CHOOSE i \in 1..Len(conns) :
            conns[i].Name = name /\ \A j \in 1..(i-1) : conns[j].Name # name
    ELSE 0

\* the error result runSequential / runParallel build when Run returns an error
ErrorResult(c, e) ==
    [ZeroResult EXCEPT !.ConnectionName = c.Name, !.SourceIP = c.SourceIP,
                       !.DSCP = c.DSCP, !.Error = e]

Names(rs) == [i \in 1..Len(rs) |-> rs[i].ConnectionName]


\* ------------------------------------------------------- Runner.Run steps
\* Run up to its first blocking call: the fresh Result and NewDSCPDialer
RunStart(c) ==
    LET result == [ZeroResult EXCEPT !.ConnectionName = c.Name,
                                     !.SourceIP = c.SourceIP,
                                     !.DSCP = c.DSCP,
                                     !.Timestamp = 1]
        derr == NewDSCPDialer(c.DSCP, c.SourceIP)
    IN  IF derr # ""
        THEN [pc |-> "ret",
              result |-> [result EXCEPT !.Error = "failed to create DSCP dialer: " \o derr],
              err |-> derr]
        ELSE [pc |-> "fetch", result |-> result, err |-> ""]

\* what FetchServers / FindServer can do for connection c: binding to a source
\* address that is on no interface fails every dial of the fetch
FetchOutcomes(c) ==
    IF c.SourceIP # "" /\ ~Assignable(c.SourceIP) THEN {"fetchErr"}
    ELSE {"fetchErr", "findErr", "noServer", "ok"}

\* a Run that returns its error without recording it in the Result
RunFetched_ErrOnly(p, outcome) ==
    CASE outcome = "fetchErr" -> [pc |-> "ret", result |-> p.result, err |-> "fetch error"]
      [] outcome = "findErr" -> [pc |-> "ret", result |-> p.result, err |-> "find error"]
      [] outcome = "noServer" ->
            [pc |-> "ret", result |-> p.result, err |-> "no speedtest servers available"]
      [] OTHER ->
            [pc |-> "measure",
             result |-> [p.result EXCEPT !.ServerName = "srv", !.ServerID = 1],
             err |-> ""]

\* Run from FetchServers to the selected server
RunFetched(p, outcome) ==
    CASE outcome = "fetchErr" ->
            [pc |-> "ret",
             result |-> [p.result EXCEPT !.Error = "failed to fetch servers: fetch error"],
             err |-> "fetch error"]
      [] outcome = "findErr" ->
            [pc |-> "ret",
             result |-> [p.result EXCEPT !.Error = "failed to find server: find error"],
             err |-> "find error"]
      [] outcome = "noServer" ->
            [pc |-> "ret",
             result |-> [p.result EXCEPT !.Error = "no speedtest servers available"],
             err |-> "no speedtest servers available"]
      [] OTHER ->
            [pc |-> "measure",
             result |-> [p.result EXCEPT !.ServerName = "srv", !.ServerID = 1],
             err |-> ""]

\* a Run that turns a download without throughput into a failed Result after
\* the ping test has already filled in the latency
RunMeasured_FailsLate(p, pingOK, dl, ul) ==
    [pc |-> "ret",
     result |-> [p.result EXCEPT
                    !.LatencyMs = IF pingOK THEN 1 ELSE 0,
                    !.JitterMs = IF pingOK THEN 1 ELSE 0,
                    !.DownloadMbps = dl,
                    !.UploadMbps = ul,
                    !.Duration = 1,
                    !.Error = IF dl = 0 THEN "download test failed" ELSE ""],
     err |-> IF dl = 0 THEN "download test failed" ELSE ""]

\* Run from the ping test to its return: pingOK is PingTest's success, dl and
\* ul are server.DLSpeed / server.ULSpeed as the client left them
RunMeasured(p, pingOK, dl, ul) ==
    [pc |-> "ret",
     result |-> [p.result EXCEPT
                    !.LatencyMs = IF pingOK THEN 1 ELSE 0,
                    !.JitterMs = IF pingOK THEN 1 ELSE 0,
                    !.DownloadMbps = dl,
                    !.UploadMbps = ul,
                    !.Duration = 1],
     err |-> ""]

RunFetch(i) ==
    /\ i \in DOMAIN probes
    /\ probes[i].pc = "fetch"
    /\ \E outcome \in FetchOutcomes(connections[i]) :
          probes' = [probes EXCEPT ![i] = RunFetched(probes[i], outcome)]
    /\ UNCHANGED <<configs, parallel, call, connections, ctxErr, pc, idx,
                   resultsChan, results, retErr, retResult, sink, startedAtCancel>>
    /\ UNCHANGED warned
    /\ UNCHANGED <<schedVars, dialVars>>

RunMeasure(i) ==
    /\ i \in DOMAIN probes
    /\ probes[i].pc = "measure"
    /\ \E pingOK \in BOOLEAN, dl \in Rates, ul \in Rates :
          probes' = [probes EXCEPT ![i] = RunMeasured(probes[i], pingOK, dl, ul)]
    /\ UNCHANGED <<configs, parallel, call, connections, ctxErr, pc, idx,
                   resultsChan, results, retErr, retResult, sink, startedAtCancel>>
    /\ UNCHANGED warned
    /\ UNCHANGED <<schedVars, dialVars>>

\* a ping step that turns a failed ping into a failed Outcome and returns
AfterPing_FailsOutcome(p, pingOK) ==
    IF pingOK
    THEN [p EXCEPT !.pc = "download", !.result.LatencyMs = 1, !.result.JitterMs = 1]
    ELSE [p EXCEPT !.pc = "ret", !.result.Error = "ping test failed",
                   !.err = "ping test failed"]

\* Run's three sub-measurements one by one: Run calls PingTest, DownloadTest
\* and UploadTest in this order and only logs what they return
AfterPing(p, pingOK) ==
    [p EXCEPT !.pc = "download",
              !.result.LatencyMs = IF pingOK THEN 1 ELSE 0,
              !.result.JitterMs = IF pingOK THEN 1 ELSE 0]

\* dl is server.DLSpeed after DownloadTest, whatever DownloadTest returned
AfterDownload(p, dl) ==
    [p EXCEPT !.pc = "upload", !.result.DownloadMbps = dl]

\* ul is server.ULSpeed after UploadTest; Run then computes the duration
AfterUpload(p, ul) ==
    [p EXCEPT !.pc = "ret", !.result.UploadMbps = ul, !.result.Duration = 1]

PingStep(i, pingOK) ==
    /\ i \in DOMAIN probes
    /\ probes[i].pc = "measure"
    /\ probes' = [probes EXCEPT ![i] = AfterPing(probes[i], pingOK)]
    /\ UNCHANGED <<configs, parallel, call, connections, ctxErr, pc, idx,
                   resultsChan, results, retErr, retResult, sink, startedAtCancel>>
    /\ UNCHANGED warned
    /\ UNCHANGED <<schedVars, dialVars>>

\* dlOK is whether DownloadTest returned nil
DownloadStep(i, dlOK, dl) ==
    /\ i \in DOMAIN probes
    /\ probes[i].pc = "download"
    /\ probes' = [probes EXCEPT ![i] = AfterDownload(probes[i], dl)]
    /\ UNCHANGED <<configs, parallel, call, connections, ctxErr, pc, idx,
                   resultsChan, results, retErr, retResult, sink, startedAtCancel>>
    /\ UNCHANGED warned
    /\ UNCHANGED <<schedVars, dialVars>>

\* ulOK is whether UploadTest returned nil
UploadStep(i, ulOK, ul) ==
    /\ i \in DOMAIN probes
    /\ probes[i].pc = "upload"
    /\ probes' = [probes EXCEPT ![i] = AfterUpload(probes[i], ul)]
    /\ UNCHANGED <<configs, parallel, call, connections, ctxErr, pc, idx,
                   resultsChan, results, retErr, retResult, sink, startedAtCancel>>
    /\ UNCHANGED warned
    /\ UNCHANGED <<schedVars, dialVars>>

RunPing(i) == \E pingOK \in BOOLEAN : PingStep(i, pingOK)
RunDownload(i) == \E dlOK \in BOOLEAN, dl \in Rates : DownloadStep(i, dlOK, dl)
RunUpload(i) == \E ulOK \in BOOLEAN, ul \in Rates : UploadStep(i, ulOK, ul)

\* ------------------------------------------------------- MultiWANRunner
\* validateSourceIP: "" when the address is on a local interface
validateSourceIP(ip) ==
    IF ~ParsesAsIP(ip) THEN "invalid IP address format"
    ELSE IF ~Assignable(ip) THEN "IP not found on any interface"
    ELSE ""

\* the connections whose source address draws a warning from the constructor
WarnedOf(conns) ==
    {conns[i].Name : i \in {j \in 1..Len(conns) :
        conns[j].SourceIP # "" /\ validateSourceIP(conns[j].SourceIP) # ""}}

\* a constructor that hands back a runner for an empty connection set
NewMultiWANRunner_AllowsEmpty ==
    /\ pc = "new"
    /\ pc' = "ready"
    /\ connections' = EnabledOf(configs)
    /\ probes' = [i \in 1..Len(EnabledOf(configs)) |-> IdleProbe]
    /\ warned' = WarnedOf(EnabledOf(configs))
    /\ parallel' = FALSE
    /\ UNCHANGED <<configs, call, ctxErr, idx, resultsChan, results, retErr,
                   retResult, sink, startedAtCancel>>
    /\ UNCHANGED <<schedVars, dialVars>>

\* a constructor that treats a source address missing from the host as fatal
NewMultiWANRunner_RejectsUnassignable ==
    /\ pc = "new"
    /\ LET wanConns == EnabledOf(configs)
       IN  IF Len(wanConns) = 0 \/ WarnedOf(wanConns) # {}
           THEN /\ pc' = "failed"
                /\ retErr' = "no enabled connections found"
                /\ UNCHANGED <<connections, probes>>
           ELSE /\ pc' = "ready"
                /\ connections' = wanConns
                /\ probes' = [i \in 1..Len(wanConns) |-> IdleProbe]
                /\ UNCHANGED retErr
    /\ warned' = {}
    /\ parallel' = FALSE
    /\ UNCHANGED <<configs, call, ctxErr, idx, resultsChan, results, retResult,
                   sink, startedAtCancel>>
    /\ UNCHANGED <<schedVars, dialVars>>

NewMultiWANRunner ==
    /\ pc = "new"
    /\ LET wanConns == EnabledOf(configs)
       IN  /\ warned' = WarnedOf(wanConns)
           /\ IF Len(wanConns) = 0
              THEN /\ pc' = "failed"
                   /\ retErr' = "no enabled connections found"
                   /\ UNCHANGED <<connections, probes>>
              ELSE /\ pc' = "ready"
                   /\ connections' = wanConns
                   /\ probes' = [i \in 1..Len(wanConns) |-> IdleProbe]
                   /\ UNCHANGED retErr
    /\ parallel' = FALSE
    /\ UNCHANGED <<configs, call, ctxErr, idx, resultsChan, results, retResult,
                   sink, startedAtCancel>>
    /\ UNCHANGED <<schedVars, dialVars>>

SetParallel(p) ==
    /\ pc = "ready"
    /\ parallel' = p
    /\ UNCHANGED <<configs, call, connections, ctxErr, pc, idx, probes,
                   resultsChan, results, retErr, retResult, sink, startedAtCancel>>
    /\ UNCHANGED warned
    /\ UNCHANGED <<schedVars, dialVars>>

\* RunWithContext up to RunAll's dispatch; runParallel's launch loop starts
\* one goroutine per connection before it waits
RunAll ==
    /\ pc = "ready"
    /\ call.op = "RunWithContext"
    /\ results' = <<>>
    /\ IF parallel
       THEN /\ pc' = "wait"
            /\ probes' = [i \in DOMAIN probes |-> [IdleProbe EXCEPT !.pc = "launched"]]
            /\ UNCHANGED idx
       ELSE /\ pc' = "seq"
            /\ idx' = 1
            /\ UNCHANGED probes
    /\ UNCHANGED <<configs, parallel, call, connections, ctxErr,
                   resultsChan, retErr, retResult, sink, startedAtCancel>>
    /\ UNCHANGED warned
    /\ UNCHANGED <<schedVars, dialVars>>

\* a loop head that never looks at the context
SeqIter_IgnoresCancel ==
    /\ pc = "seq"
    /\ IF idx > Len(connections)
       THEN /\ pc' = "returned"
            /\ retErr' = ""
            /\ UNCHANGED probes
       ELSE /\ pc' = "probing"
            /\ probes' = [probes EXCEPT ![idx] = RunStart(connections[idx])]
            /\ UNCHANGED retErr
    /\ UNCHANGED <<configs, parallel, call, connections, ctxErr, idx,
                   resultsChan, results, retResult, sink, startedAtCancel>>
    /\ UNCHANGED warned
    /\ UNCHANGED <<schedVars, dialVars>>

\* runSequential: the head of one loop iteration (or the loop's exit)
SeqIter ==
    /\ pc = "seq"
    /\ IF idx > Len(connections)
       THEN /\ pc' = "returned"
            /\ retErr' = ""
            /\ UNCHANGED probes
       ELSE IF ctxErr # ""
       THEN /\ pc' = "returned"
            /\ retErr' = ctxErr
            /\ UNCHANGED probes
       ELSE /\ pc' = "probing"
            /\ probes' = [probes EXCEPT ![idx] = RunStart(connections[idx])]
            /\ UNCHANGED retErr
    /\ UNCHANGED <<configs, parallel, call, connections, ctxErr, idx,
                   resultsChan, results, retResult, sink, startedAtCancel>>
    /\ UNCHANGED warned
    /\ UNCHANGED <<schedVars, dialVars>>

\* what the sweep keeps of a Run that returned (result, err)
Collected(c, p) == IF p.err # "" THEN ErrorResult(c, p.err) ELSE p.result

\* a loop body that gives the whole sweep up when one Run fails
SeqCollect_AbortsOnError ==
    /\ pc = "probing"
    /\ probes[idx].pc = "ret"
    /\ probes' = [probes EXCEPT ![idx].pc = "done"]
    /\ IF probes[idx].err # ""
       THEN /\ pc' = "returned"
            /\ retErr' = probes[idx].err
            /\ UNCHANGED <<results, idx>>
       ELSE /\ results' = Append(results, probes[idx].result)
            /\ idx' = idx + 1
            /\ pc' = "seq"
            /\ UNCHANGED retErr
    /\ UNCHANGED <<configs, parallel, call, connections, ctxErr,
                   resultsChan, retResult, sink, startedAtCancel>>
    /\ UNCHANGED warned
    /\ UNCHANGED <<schedVars, dialVars>>

\* a loop body that puts the newest result in front
SeqCollect_Prepends ==
    /\ pc = "probing"
    /\ probes[idx].pc = "ret"
    /\ results' = <<Collected(connections[idx], probes[idx])>> \o results
    /\ probes' = [probes EXCEPT ![idx].pc = "done"]
    /\ idx' = idx + 1
    /\ pc' = "seq"
    /\ UNCHANGED <<configs, parallel, call, connections, ctxErr,
                   resultsChan, retErr, retResult, sink, startedAtCancel>>
    /\ UNCHANGED warned
    /\ UNCHANGED <<schedVars, dialVars>>

\* runSequential: Run returned; append and move on
SeqCollect ==
    /\ pc = "probing"
    /\ probes[idx].pc = "ret"
    /\ results' = Append(results, Collected(connections[idx], probes[idx]))
    /\ probes' = [probes EXCEPT ![idx].pc = "done"]
    /\ idx' = idx + 1
    /\ pc' = "seq"
    /\ UNCHANGED <<configs, parallel, call, connections, ctxErr,
                   resultsChan, retErr, retResult, sink, startedAtCancel>>
    /\ UNCHANGED warned
    /\ UNCHANGED <<schedVars, dialVars>>

\* runParallel: a launched goroutine enters Run
WorkerStart(i) ==
    /\ pc = "wait"
    /\ i \in DOMAIN probes
    /\ probes[i].pc = "launched"
    /\ probes' = [probes EXCEPT ![i] = RunStart(connections[i])]
    /\ UNCHANGED <<configs, parallel, call, connections, ctxErr, pc, idx,
                   resultsChan, results, retErr, retResult, sink, startedAtCancel>>
    /\ UNCHANGED warned
    /\ UNCHANGED <<schedVars, dialVars>>

\* a send on a channel without buffer: it needs a receiver, and runParallel
\* receives only after wg.Wait
WorkerSend_Unbuffered(i) ==
    /\ pc = "wait"
    /\ i \in DOMAIN probes
    /\ probes[i].pc = "ret"
    /\ Len(resultsChan) < 0
    /\ resultsChan' = Append(resultsChan, Collected(connections[i], probes[i]))
    /\ probes' = [probes EXCEPT ![i].pc = "done"]
    /\ UNCHANGED <<configs, parallel, call, connections, ctxErr, pc, idx,
                   results, retErr, retResult, sink, startedAtCancel>>
    /\ UNCHANGED warned
    /\ UNCHANGED <<schedVars, dialVars>>

\* runParallel: a goroutine sends its result and signals the wait group
WorkerSend(i) ==
    /\ pc = "wait"
    /\ i \in DOMAIN probes
    /\ probes[i].pc = "ret"
    /\ Len(resultsChan) < Len(connections)
    /\ resultsChan' = Append(resultsChan, Collected(connections[i], probes[i]))
    /\ probes' = [probes EXCEPT ![i].pc = "done"]
    /\ UNCHANGED <<configs, parallel, call, connections, ctxErr, pc, idx,
                   results, retErr, retResult, sink, startedAtCancel>>
    /\ UNCHANGED warned
    /\ UNCHANGED <<schedVars, dialVars>>

\* a collector that drains the channel without waiting for the goroutines
ParCollect_NoJoin ==
    /\ pc = "wait"
    /\ results' = resultsChan
    /\ resultsChan' = <<>>
    /\ retErr' = ""
    /\ pc' = "returned"
    /\ UNCHANGED <<configs, parallel, call, connections, ctxErr, idx, probes,
                   retResult, sink, startedAtCancel>>
    /\ UNCHANGED warned
    /\ UNCHANGED <<schedVars, dialVars>>

\* runParallel: wg.Wait returned; close the channel and drain it
ParCollect ==
    /\ pc = "wait"
    /\ \A i \in DOMAIN probes : probes[i].pc = "done"
    /\ results' = resultsChan
    /\ resultsChan' = <<>>
    /\ retErr' = ""
    /\ pc' = "returned"
    /\ UNCHANGED <<configs, parallel, call, connections, ctxErr, idx, probes,
                   retResult, sink, startedAtCancel>>
    /\ UNCHANGED warned
    /\ UNCHANGED <<schedVars, dialVars>>

\* RunConnection: look the name up and enter Run, or fail
RunConnection ==
    /\ pc = "ready"
    /\ call.op = "RunConnection"
    /\ LET i == FindConn(connections, call.name)
       IN  IF i = 0
           THEN /\ pc' = "done"
                /\ retErr' = "connection not found"
                /\ UNCHANGED <<probes, idx>>
           ELSE /\ pc' = "rcprobing"
                /\ idx' = i
                /\ probes' = [probes EXCEPT ![i] = RunStart(connections[i])]
                /\ UNCHANGED retErr
    /\ UNCHANGED <<configs, parallel, call, connections, ctxErr,
                   resultsChan, results, retResult, sink, startedAtCancel>>
    /\ UNCHANGED warned
    /\ UNCHANGED <<schedVars, dialVars>>

\* RunConnection: hand back whatever Run returned
RunConnectionReturn ==
    /\ pc = "rcprobing"
    /\ probes[idx].pc = "ret"
    /\ retResult' = probes[idx].result
    /\ retErr' = probes[idx].err
    /\ probes' = [probes EXCEPT ![idx].pc = "done"]
    /\ pc' = "done"
    /\ UNCHANGED <<configs, parallel, call, connections, ctxErr, idx,
                   resultsChan, results, sink, startedAtCancel>>
    /\ UNCHANGED warned
    /\ UNCHANGED <<schedVars, dialVars>>

\* the connections whose Run has been entered
Started == {i \in DOMAIN probes : probes[i].pc \notin {"idle", "launched"}}

\* the context is cancelled or its deadline passes
Cancel ==
    /\ pc \in {"ready", "seq", "probing", "wait", "rcprobing", "returned"}
    /\ ctxErr = ""
    /\ ctxErr' \in {"context canceled", "context deadline exceeded"}
    /\ startedAtCancel' = Cardinality(Started)
    /\ UNCHANGED <<configs, parallel, call, connections, pc, idx, probes,
                   resultsChan, results, retErr, retResult, sink>>
    /\ UNCHANGED warned
    /\ UNCHANGED <<schedVars, dialVars>>

\* ------------------------------------------------------- SpeedtestJob
EmptySink == [metrics |-> <<>>, saves |-> <<>>, savedCount |-> 0, errorCount |-> 0]

\* storage.FromSpeedtestResult
FromSpeedtestResult(r) ==
    [ConnectionName |-> r.ConnectionName, ServerID |-> r.ServerID,
     ServerName |-> r.ServerName, LatencyMs |-> r.LatencyMs,
     JitterMs |-> r.JitterMs, DownloadMbps |-> r.DownloadMbps,
     UploadMbps |-> r.UploadMbps, PacketLossPct |-> r.PacketLossPct,
     SourceIP |-> r.SourceIP, DSCP |-> r.DSCP, Error |-> r.Error,
     CreatedAt |-> r.Timestamp]

RECURSIVE SinkLoop_SkipsErrors(_, _, _, _)
\* a sink loop that passes over the failed results
SinkLoop_SkipsErrors(rs, i, failing, acc) ==
    IF i > Len(rs) THEN acc
    ELSE IF IsError(rs[i]) THEN SinkLoop_SkipsErrors(rs, i + 1, failing, acc)
    ELSE SinkLoop_SkipsErrors(rs, i + 1, failing,
            [metrics |-> Append(acc.metrics, rs[i]),
             saves |-> Append(acc.saves,
                              [ConnectionName |-> rs[i].ConnectionName,
                               Error |-> rs[i].Error]),
             savedCount |-> IF i \in failing THEN acc.savedCount ELSE acc.savedCount + 1,
             errorCount |-> IF i \in failing THEN acc.errorCount + 1 ELSE acc.errorCount])

RECURSIVE SinkLoop(_, _, _, _)
\* RunWithContext's loop over the results from index i on: each result goes to
\* UpdateMetricsForResult, then to SaveResult; failing holds the indices whose
\* SaveResult returns an error
SinkLoop(rs, i, failing, acc) ==
    IF i > Len(rs) THEN acc
    ELSE SinkLoop(rs, i + 1, failing,
            [metrics |-> Append(acc.metrics, rs[i]),
             saves |-> Append(acc.saves, FromSpeedtestResult(rs[i])),
             savedCount |-> IF i \in failing THEN acc.savedCount ELSE acc.savedCount + 1,
             errorCount |-> IF i \in failing THEN acc.errorCount + 1 ELSE acc.errorCount])

\* a job that saves what a cut-short sweep had collected
JobSink_SavesPartial ==
    /\ pc = "returned"
    /\ \E failing \in SUBSET (1..Len(results)) :
          sink' = SinkLoop(results, 1, failing, EmptySink)
    /\ pc' = "done"
    /\ UNCHANGED <<configs, parallel, call, connections, ctxErr, idx, probes,
                   resultsChan, results, retErr, retResult, startedAtCancel>>
    /\ UNCHANGED warned
    /\ UNCHANGED <<schedVars, dialVars>>

\* RunWithContext after RunAll returned: give up on an error, else run the
\* sink loop
JobSink ==
    /\ pc = "returned"
    /\ IF retErr # ""
       THEN UNCHANGED sink
       ELSE \E failing \in SUBSET (1..Len(results)) :
              sink' = SinkLoop(results, 1, failing, EmptySink)
    /\ pc' = "done"
    /\ UNCHANGED <<configs, parallel, call, connections, ctxErr, idx, probes,
                   resultsChan, results, retErr, retResult, startedAtCancel>>
    /\ UNCHANGED warned
    /\ UNCHANGED <<schedVars, dialVars>>

\* ------------------------------------------------------- scheduler state
\* a sweep is one activation of SpeedtestJob.Run: origin "cron" when the cron
\* loop started it (counted by the cron's job wait group), "manual" when
\* TriggerNow started it with a bare go statement
Sweep(origin) == [origin |-> origin, state |-> "running", outcome |-> ""]
\* how a sweep can end: every Outcome good, some Outcomes failed, or
\* RunWithContext returned an error that Run only logs
SweepOutcomes == {"ok", "failed outcomes", "error"}
RunningSweeps == {i \in 1..Len(sweeps) : sweeps[i].state = "running"}
\* the cron instance's wait group: the cron-started jobs still running
JobWaiter == {i \in RunningSweeps : sweeps[i].origin = "cron"}

RECURSIVE Launch(_, _, _)
\* n more sweeps of one origin
Launch(sw, origin, n) ==
    IF n = 0 THEN sw ELSE Launch(Append(sw, Sweep(origin)), origin, n - 1)

\* a Start without the already-running test
Start_ReRegisters ==
    /\ mu = "free"
    /\ IF ~cfgEnabled
       THEN /\ lastCall' = [op |-> "Start", err |-> ""]
            /\ UNCHANGED <<running, jobID, entries, cronRunning>>
       ELSE IF ~cfgValid
       THEN /\ lastCall' = [op |-> "Start", err |-> "failed to add cron job"]
            /\ UNCHANGED <<running, jobID, entries, cronRunning>>
       ELSE /\ entries < MaxEntries
            /\ entries' = entries + 1
            /\ jobID' = entries + 1
            /\ cronRunning' = TRUE
            /\ running' = TRUE
            /\ lastCall' = [op |-> "Start", err |-> ""]
    /\ UNCHANGED <<cfgEnabled, cfgValid, mu, sweeps>>
    /\ UNCHANGED <<runnerVars, dialVars>>

\* a Start that starts the cron loop before it registers the job
Start_StartsCronFirst ==
    /\ mu = "free"
    /\ IF running
       THEN /\ lastCall' = [op |-> "Start", err |-> "scheduler already running"]
            /\ UNCHANGED <<running, jobID, entries, cronRunning>>
       ELSE IF ~cfgEnabled
       THEN /\ lastCall' = [op |-> "Start", err |-> ""]
            /\ UNCHANGED <<running, jobID, entries, cronRunning>>
       ELSE IF ~cfgValid
       THEN /\ cronRunning' = TRUE
            /\ running' = TRUE
            /\ lastCall' = [op |-> "Start", err |-> "failed to add cron job"]
            /\ UNCHANGED <<jobID, entries>>
       ELSE /\ entries < MaxEntries
            /\ entries' = entries + 1
            /\ jobID' = entries + 1
            /\ cronRunning' = TRUE
            /\ running' = TRUE
            /\ lastCall' = [op |-> "Start", err |-> ""]
    /\ UNCHANGED <<cfgEnabled, cfgValid, mu, sweeps>>
    /\ UNCHANGED <<runnerVars, dialVars>>

\* Scheduler.Start
Start ==
    /\ mu = "free"
    /\ IF running
       THEN /\ lastCall' = [op |-> "Start", err |-> "scheduler already running"]
            /\ UNCHANGED <<running, jobID, entries, cronRunning>>
       ELSE IF ~cfgEnabled
       THEN /\ lastCall' = [op |-> "Start", err |-> ""]
            /\ UNCHANGED <<running, jobID, entries, cronRunning>>
       ELSE IF ~cfgValid
       THEN /\ lastCall' = [op |-> "Start", err |-> "failed to add cron job"]
            /\ UNCHANGED <<running, jobID, entries, cronRunning>>
       ELSE /\ entries < MaxEntries
            /\ entries' = entries + 1
            /\ jobID' = entries + 1
            /\ cronRunning' = TRUE
            /\ running' = TRUE
            /\ lastCall' = [op |-> "Start", err |-> ""]
    /\ UNCHANGED <<cfgEnabled, cfgValid, mu, sweeps>>
    /\ UNCHANGED <<runnerVars, dialVars>>

\* Scheduler.Stop up to the wait on the context cron.Stop returned; the mutex
\* stays held while it waits
StopBegin ==
    /\ mu = "free"
    /\ IF ~running
       THEN /\ lastCall' = [op |-> "Stop", err |-> ""]
            /\ UNCHANGED <<mu, cronRunning>>
       ELSE /\ cronRunning' = FALSE
            /\ mu' = "Stop"
            /\ UNCHANGED lastCall
    /\ UNCHANGED <<cfgEnabled, cfgValid, running, jobID, entries, sweeps>>
    /\ UNCHANGED <<runnerVars, dialVars>>

\* Scheduler.Stop: the cron's jobs have drained; clear running and return
StopReturn ==
    /\ mu = "Stop"
    /\ JobWaiter = {}
    /\ running' = FALSE
    /\ mu' = "free"
    /\ lastCall' = [op |-> "Stop", err |-> ""]
    /\ UNCHANGED <<cfgEnabled, cfgValid, jobID, entries, cronRunning, sweeps>>
    /\ UNCHANGED <<runnerVars, dialVars>>

\* Scheduler.TriggerNow
TriggerNow ==
    /\ mu = "free"
    /\ IF jobID = 0
       THEN UNCHANGED sweeps
       ELSE /\ Len(sweeps) < MaxSweeps
            /\ sweeps' = Launch(sweeps, "manual", 1)
    /\ lastCall' = [op |-> "TriggerNow", err |-> ""]
    /\ UNCHANGED <<cfgEnabled, cfgValid, running, jobID, entries, cronRunning, mu>>
    /\ UNCHANGED <<runnerVars, dialVars>>

\* the cron loop's timer fires: every registered entry is due (they share one
\* schedule) and each is started in its own goroutine under the Recover chain
TimerFire ==
    /\ cronRunning
    /\ entries >= 1
    /\ Len(sweeps) + entries <= MaxSweeps
    /\ sweeps' = Launch(sweeps, "cron", entries)
    /\ UNCHANGED <<cfgEnabled, cfgValid, running, jobID, entries, cronRunning,
                   mu, lastCall>>
    /\ UNCHANGED <<runnerVars, dialVars>>

\* Scheduler.GetStatus: takes the mutex, reads, returns
GetStatus ==
    /\ mu = "free"
    /\ lastCall' = [op |-> "GetStatus", err |-> ""]
    /\ UNCHANGED <<cfgEnabled, cfgValid, running, jobID, entries, cronRunning,
                   mu, sweeps>>
    /\ UNCHANGED <<runnerVars, dialVars>>

\* Scheduler.IsRunning
IsRunning ==
    /\ mu = "free"
    /\ lastCall' = [op |-> "IsRunning", err |-> ""]
    /\ UNCHANGED <<cfgEnabled, cfgValid, running, jobID, entries, cronRunning,
                   mu, sweeps>>
    /\ UNCHANGED <<runnerVars, dialVars>>

\* Scheduler.NextRun
NextRun ==
    /\ mu = "free"
    /\ lastCall' = [op |-> "NextRun", err |-> ""]
    /\ UNCHANGED <<cfgEnabled, cfgValid, running, jobID, entries, cronRunning,
                   mu, sweeps>>
    /\ UNCHANGED <<runnerVars, dialVars>>

\* a job that takes the Scheduler's mutex before it returns
SweepFinish_TakesMutex(i) ==
    /\ i \in RunningSweeps
    /\ mu = "free"
    /\ \E o \in SweepOutcomes :
          sweeps' = [sweeps EXCEPT ![i].state = "done", ![i].outcome = o]
    /\ UNCHANGED <<cfgEnabled, cfgValid, running, jobID, entries, cronRunning,
                   mu, lastCall>>
    /\ UNCHANGED <<runnerVars, dialVars>>

\* a job whose error takes the cron loop down with it
SweepFinish_ErrorStopsCron(i) ==
    /\ i \in RunningSweeps
    /\ \E o \in SweepOutcomes :
          /\ sweeps' = [sweeps EXCEPT ![i].state = "done", ![i].outcome = o]
          /\ cronRunning' = IF o = "error" THEN FALSE ELSE cronRunning
    /\ UNCHANGED <<cfgEnabled, cfgValid, running, jobID, entries, mu, lastCall>>
    /\ UNCHANGED <<runnerVars, dialVars>>

\* SpeedtestJob.Run returns; whatever RunWithContext returned is only logged
SweepFinish(i) ==
    /\ i \in RunningSweeps
    /\ \E o \in SweepOutcomes :
          sweeps' = [sweeps EXCEPT ![i].state = "done", ![i].outcome = o]
    /\ UNCHANGED <<cfgEnabled, cfgValid, running, jobID, entries, cronRunning,
                   mu, lastCall>>
    /\ UNCHANGED <<runnerVars, dialVars>>

\* NewScheduler: nothing registered, nothing running
NewScheduler ==
    /\ running = FALSE
    /\ jobID = 0
    /\ entries = 0
    /\ cronRunning = FALSE
    /\ mu = "free"
    /\ sweeps = <<>>
    /\ lastCall = [op |-> "", err |-> ""]

\* no dial under way
NoDial == [pc |-> "none"]

\* ------------------------------------------------------- DSCPDialer
\* largest DSCP code point NewDSCPDialer accepts
MaxDSCP == 63
\* addresses one DialContext may go through before it gives up
MaxDials == 2

DSCPToTOS(dscp) == dscp * 4
TOSToDSCP(tos) == tos \div 4

\* one step of a dial on the socket of the attempt-th address
DialEvent(attempt, kind, network) ==
    [attempt |-> attempt, kind |-> kind, network |-> network,
     marked |-> FALSE, opt |-> "", tos |-> 0, err |-> ""]

\* a control function that hands the code point to setsockopt unshifted
controlFunc_NoShift(d, network, rawOK, sockOK) ==
    LET tos == d.dscp
        isIPv6 == network \in {"tcp6", "udp6"}
        ev == DialEvent(d.attempt, "control", network)
    IN  IF ~rawOK
        THEN [ev |-> [ev EXCEPT !.err = "failed to access raw connection"], logs |-> <<>>]
        ELSE IF ~sockOK
        THEN [ev |-> [ev EXCEPT !.err = "failed to set DSCP"], logs |-> <<>>]
        ELSE [ev |-> [ev EXCEPT !.marked = TRUE, !.tos = tos,
                                !.opt = IF isIPv6 THEN "IPV6_TCLASS" ELSE "IP_TOS"],
              logs |-> IF d.logger THEN <<"DSCP set successfully">> ELSE <<>>]

\* controlFunc of the non-Windows build: rawOK is RawConn.Control's success,
\* sockOK is setsockopt's
controlFunc(d, network, rawOK, sockOK) ==
    LET tos == d.dscp * 4
        isIPv6 == network \in {"tcp6", "udp6"}
        ev == DialEvent(d.attempt, "control", network)
    IN  IF ~rawOK
        THEN [ev |-> [ev EXCEPT !.err = "failed to access raw connection"], logs |-> <<>>]
        ELSE IF ~sockOK
        THEN [ev |-> [ev EXCEPT !.err = "failed to set DSCP"], logs |-> <<>>]
        ELSE [ev |-> [ev EXCEPT !.marked = TRUE, !.tos = tos,
                                !.opt = IF isIPv6 THEN "IPV6_TCLASS" ELSE "IP_TOS"],
              logs |-> IF d.logger THEN <<"DSCP set successfully">> ELSE <<>>]

\* controlFunc of the Windows build
controlFuncWindows(d, network) ==
    [ev |-> DialEvent(d.attempt, "control", network),
     logs |-> IF d.logger
              THEN <<"DSCP marking is not supported on Windows, skipping">>
              ELSE <<>>]

\* the dial of one address failed with e: the dialer goes on to the next
\* address when it has one, and otherwise returns the first error
AttemptFailed(d, e) ==
    LET f == [d EXCEPT !.firstErr = IF d.firstErr = "" THEN e ELSE d.firstErr]
    IN  {[f EXCEPT !.pc = "failed"]}
        \cup (IF d.attempt < MaxDials THEN {[f EXCEPT !.pc = "dialing"]} ELSE {})

\* NewDSCPDialer as Run calls it
MakeDialer ==
    /\ dial.pc = "new"
    /\ LET e == NewDSCPDialer(dial.dscp, dial.sourceIP)
       IN  dial' = IF e # "" THEN [dial EXCEPT !.pc = "failed", !.firstErr = e]
                   ELSE [dial EXCEPT !.pc = "ready"]
    /\ UNCHANGED <<runnerVars, schedVars>>

\* DialContext up to its call of net.Dialer.DialContext
DialContext ==
    /\ dial.pc = "ready"
    /\ dial' =
          IF dial.sourceIP # "" /\ ~ParsesAsIP(dial.sourceIP)
          THEN [dial EXCEPT !.pc = "failed", !.firstErr = "invalid source IP"]
          ELSE [dial EXCEPT
                  !.pc = "dialing",
                  !.localAddr = dial.sourceIP,
                  !.logs = IF dial.sourceIP # "" /\ dial.logger
                           THEN Append(@, "Binding to source IP") ELSE @,
                  !.control = dial.dscp > 0]
    /\ UNCHANGED <<runnerVars, schedVars>>

\* net.Dialer.DialContext, the steps it takes for each address in the order
\* the runtime takes them: socket, Control, bind to LocalAddr, connect.
\* The socket of the next address; Control will be told its family
DialSocket ==
    /\ dial.pc = "dialing"
    /\ dial.attempt < MaxDials
    /\ \E network \in {"tcp4", "tcp6"} :
          dial' = [dial EXCEPT
                     !.pc = "socket",
                     !.attempt = @ + 1,
                     !.network = network,
                     !.events = Append(@, DialEvent(dial.attempt + 1, "socket", network))]
    /\ UNCHANGED <<runnerVars, schedVars>>

\* a dial whose connect step applies the marking to the connected socket
DialConnect_MarksLate ==
    /\ dial.pc = "bound"
    /\ \/ dial' = [dial EXCEPT
                     !.pc = "connected",
                     !.events = @ \o <<DialEvent(dial.attempt, "connect", dial.network),
                                       [DialEvent(dial.attempt, "control", dial.network)
                                           EXCEPT !.marked = TRUE,
                                                  !.tos = dial.dscp * 4,
                                                  !.opt = "IP_TOS"]>>]
       \/ dial' \in AttemptFailed(dial, "connect failed")
    /\ UNCHANGED <<runnerVars, schedVars>>

\* the connection handshake
DialConnect ==
    /\ dial.pc = "bound"
    /\ \/ dial' = [dial EXCEPT
                     !.pc = "connected",
                     !.events = Append(@, DialEvent(dial.attempt, "connect", dial.network))]
       \/ dial' \in AttemptFailed(dial, "connect failed")
    /\ UNCHANGED <<runnerVars, schedVars>>

\* the Control callback, when DialContext installed one
DialControl ==
    /\ dial.pc = "socket"
    /\ IF ~dial.control
       THEN dial' = [dial EXCEPT !.pc = "controlled"]
       ELSE \E rawOK, sockOK \in BOOLEAN :
               LET r == IF dial.platform = "windows"
                        THEN controlFuncWindows(dial, dial.network)
                        ELSE controlFunc(dial, dial.network, rawOK, sockOK)
                   d == [dial EXCEPT !.events = Append(@, r.ev),
                                     !.logs = @ \o r.logs]
               IN  IF r.ev.err # ""
                   THEN dial' \in AttemptFailed(d, r.ev.err)
                   ELSE dial' = [d EXCEPT !.pc = "controlled"]
    /\ UNCHANGED <<runnerVars, schedVars>>

\* the bind to LocalAddr: an address on no interface cannot be bound
DialBind ==
    /\ dial.pc = "controlled"
    /\ IF dial.localAddr = ""
       THEN dial' = [dial EXCEPT !.pc = "bound"]
       ELSE IF ~Assignable(dial.localAddr)
       THEN dial' \in AttemptFailed(dial, "bind: cannot assign requested address")
       ELSE dial' = [dial EXCEPT
                       !.pc = "bound",
                       !.events = Append(@, DialEvent(dial.attempt, "bind", dial.network))]
    /\ UNCHANGED <<runnerVars, schedVars>>

\* ------------------------------------------------------- specification
ConfigLists ==
    UNION {[1..n -> BOOLEAN] : n \in 0..MaxConns}

ConfigOf(en) ==
    [i \in 1..Len(en) |-> [Name |-> ConnNames[i], SourceIP |-> ConnSourceIPs[i],
                           DSCP |-> ConnDSCPs[i], Enabled |-> en[i]]]

Calls ==
    {[op |-> "RunWithContext", name |-> ""]}
    \cup {[op |-> "RunConnection", name |-> ConnNames[i]] : i \in 1..MaxConns}

Init ==
    /\ \E en \in ConfigLists : configs = ConfigOf(en)
    /\ call \in Calls
    /\ parallel = FALSE
    /\ connections = <<>>
    /\ ctxErr = ""
    /\ pc = "new"
    /\ idx = 0
    /\ probes = <<>>
    /\ resultsChan = <<>>
    /\ results = <<>>
    /\ retErr = ""
    /\ retResult = NoResult
    /\ sink = EmptySink
    /\ startedAtCancel = -1
    /\ warned = {}
    /\ dial = NoDial
    /\ cfgEnabled = TRUE
    /\ cfgValid = TRUE
    /\ NewScheduler

Next ==
    \/ NewMultiWANRunner
    \/ \E p \in BOOLEAN : SetParallel(p)
    \/ RunAll
    \/ SeqIter
    \/ SeqCollect
    \/ \E i \in 1..MaxConns : WorkerStart(i)
    \/ \E i \in 1..MaxConns : WorkerSend(i)
    \/ ParCollect
    \/ \E i \in 1..MaxConns : RunFetch(i)
    \/ \E i \in 1..MaxConns : RunMeasure(i)
    \/ RunConnection
    \/ RunConnectionReturn
    \/ Cancel
    \/ JobSink

Spec == Init /\ [][Next]_vars

\* the steps that are the program's own code: once enabled they are taken. The
\* calls into the measurement client (RunFetch, RunMeasure) are network I/O
\* that Run makes without the context; nothing makes them return
OwnSteps ==
    \/ NewMultiWANRunner
    \/ RunAll
    \/ SeqIter
    \/ SeqCollect
    \/ \E i \in 1..MaxConns : WorkerStart(i)
    \/ \E i \in 1..MaxConns : WorkerSend(i)
    \/ ParCollect
    \/ RunConnection
    \/ RunConnectionReturn
    \/ JobSink

FairSpec == Init /\ [][Next]_vars /\ WF_vars(OwnSteps)

\* one connection of every kind a caller can hand to the runner, probed with
\* Run's sub-measurements taken one at a time
ProbeDSCPs == {0 - 1, 0, 46, MaxDSCP, MaxDSCP + 1}
ProbeSourceIPs == {"", "192.168.2.100", "10.255.255.255", "not-an-ip"}

ProbeInit ==
    /\ \E d \in ProbeDSCPs, ip \in ProbeSourceIPs :
          configs = <<[Name |-> "A", SourceIP |-> ip, DSCP |-> d, Enabled |-> TRUE]>>
    /\ call \in {[op |-> "RunWithContext", name |-> ""],
                 [op |-> "RunConnection", name |-> "A"]}
    /\ parallel = FALSE
    /\ connections = <<>>
    /\ ctxErr = ""
    /\ pc = "new"
    /\ idx = 0
    /\ probes = <<>>
    /\ resultsChan = <<>>
    /\ results = <<>>
    /\ retErr = ""
    /\ retResult = NoResult
    /\ sink = EmptySink
    /\ startedAtCancel = -1
    /\ warned = {}
    /\ dial = NoDial
    /\ cfgEnabled = TRUE
    /\ cfgValid = TRUE
    /\ NewScheduler

ProbeNext ==
    \/ NewMultiWANRunner
    \/ \E p \in BOOLEAN : SetParallel(p)
    \/ RunAll
    \/ SeqIter
    \/ SeqCollect
    \/ \E i \in 1..MaxConns : WorkerStart(i)
    \/ \E i \in 1..MaxConns : WorkerSend(i)
    \/ ParCollect
    \/ \E i \in 1..MaxConns : RunFetch(i)
    \/ \E i \in 1..MaxConns : RunPing(i)
    \/ \E i \in 1..MaxConns : RunDownload(i)
    \/ \E i \in 1..MaxConns : RunUpload(i)
    \/ RunConnection
    \/ RunConnectionReturn
    \/ Cancel
    \/ JobSink

ProbeSpec == ProbeInit /\ [][ProbeNext]_vars


\* the Scheduler alone, for a configuration that may be disabled or carry a
\* schedule expression that does not parse
SchedInit ==
    /\ cfgEnabled \in BOOLEAN
    /\ cfgValid \in BOOLEAN
    /\ NewScheduler
    /\ configs = <<>>
    /\ call = [op |-> "RunWithContext", name |-> ""]
    /\ parallel = FALSE
    /\ connections = <<>>
    /\ ctxErr = ""
    /\ pc = "idle"
    /\ idx = 0
    /\ probes = <<>>
    /\ resultsChan = <<>>
    /\ results = <<>>
    /\ retErr = ""
    /\ retResult = NoResult
    /\ sink = EmptySink
    /\ startedAtCancel = -1
    /\ warned = {}
    /\ dial = NoDial

SchedNext ==
    \/ Start
    \/ StopBegin
    \/ StopReturn
    \/ TriggerNow
    \/ TimerFire
    \/ \E i \in 1..MaxSweeps : SweepFinish(i)
    \/ GetStatus
    \/ IsRunning
    \/ NextRun

SchedSpec == SchedInit /\ [][SchedNext]_vars

\* a sweep the cron loop started comes to its end
CronSweepFinish(i) == SweepFinish(i) /\ sweeps[i].origin = "cron"

\* the Scheduler when every sweep the cron loop started terminates and a Stop
\* that can return does
SchedFairSpec ==
    /\ SchedInit /\ [][SchedNext]_vars
    /\ WF_vars(StopReturn)
    /\ \A i \in 1..MaxSweeps : WF_vars(CronSweepFinish(i))


\* the dialers a caller can ask for, on either build, logger or not
DialInit ==
    /\ \E dscp \in (0 - 1)..(MaxDSCP + 1),
          sourceIP \in {"", "192.168.2.100", "10.255.255.255", "not-an-ip"},
          platform \in {"unix", "windows"}, logger \in BOOLEAN :
          dial = [pc |-> "new", platform |-> platform, logger |-> logger,
                  dscp |-> dscp, sourceIP |-> sourceIP, localAddr |-> "",
                  control |-> FALSE, attempt |-> 0, network |-> "",
                  events |-> <<>>, logs |-> <<>>, firstErr |-> ""]
    /\ cfgEnabled = TRUE
    /\ cfgValid = TRUE
    /\ NewScheduler
    /\ configs = <<>>
    /\ call = [op |-> "RunWithContext", name |-> ""]
    /\ parallel = FALSE
    /\ connections = <<>>
    /\ ctxErr = ""
    /\ pc = "idle"
    /\ idx = 0
    /\ probes = <<>>
    /\ resultsChan = <<>>
    /\ results = <<>>
    /\ retErr = ""
    /\ retResult = NoResult
    /\ sink = EmptySink
    /\ startedAtCancel = -1
    /\ warned = {}

DialNext ==
    \/ MakeDialer
    \/ DialContext
    \/ DialSocket
    \/ DialControl
    \/ DialBind
    \/ DialConnect

DialSpec == DialInit /\ [][DialNext]_vars


\* =================================================================
\* Properties
\* =================================================================
\* a RunAll made through the job has returned
RunAllReturned == call.op = "RunWithContext" /\ pc \in {"returned", "done"}
\* names of the enabled entries of the configured list
EnabledNames == {configs[i].Name : i \in {j \in 1..Len(configs) : configs[j].Enabled}}
NoDuplicateNames(rs) ==
    \A i, j \in 1..Len(rs) : rs[i].ConnectionName = rs[j].ConnectionName => i = j
\* the Results Runner.Run has handed back and not yet passed on
RunReturns == {i \in DOMAIN probes : probes[i].pc = "ret"}
Numerics(r) == {r.LatencyMs, r.JitterMs, r.DownloadMbps, r.UploadMbps, r.PacketLossPct}

\* C1: at any time at most one sweep started by the Scheduler (by a timer fire
\* or by TriggerNow) is in flight
C1_AtMostOneSweepInFlight == Cardinality(RunningSweeps) <= 1

\* C2: a TriggerNow made while a sweep is in flight starts no sweep
C2_TriggerNowNoOpWhileRunning ==
    [][(TriggerNow /\ RunningSweeps # {}) => UNCHANGED sweeps]_vars

\* C3: when Stop has returned, no sweep launched by the Scheduler is running
C3_StopLeavesNoSweep == lastCall.op = "Stop" => RunningSweeps = {}

\* C4: in serial mode with a context that was never cancelled, RunAll returns
\* one Outcome per enabled connection of the configured list: as many Outcomes
\* as enabled entries, no name twice, every name an enabled one
C4_SerialOneOutcomePerEnabled ==
    (RunAllReturned /\ ~parallel /\ ctxErr = "") =>
        /\ Len(results) = Cardinality(EnabledNames)
        /\ Len(results) >= 1
        /\ NoDuplicateNames(results)
        /\ {results[i].ConnectionName : i \in 1..Len(results)} = EnabledNames

C4_Witness ==
    /\ RunAllReturned /\ ~parallel /\ ctxErr = ""
    /\ Len(configs) = 3
    /\ configs[1].Enabled /\ configs[2].Enabled /\ ~configs[3].Enabled
    /\ Names(results) = <<"A", "B">>

\* C5: when a Run failed during a RunAll that no cancellation cut short, every
\* connection was still probed, RunAll's error is nil, there are as many
\* Outcomes as connections and each failed connection's Outcome has an Error
C5_FailureIsolated ==
    (/\ RunAllReturned
     /\ parallel \/ ctxErr = ""
     /\ \E i \in DOMAIN probes : probes[i].err # "") =>
        /\ retErr = ""
        /\ \A i \in DOMAIN probes : probes[i].pc = "done"
        /\ Len(results) = Len(connections)
        /\ \A i \in DOMAIN probes :
              probes[i].err # "" =>
                 \E j \in 1..Len(results) :
                    /\ results[j].ConnectionName = connections[i].Name
                    /\ results[j].Error # ""

C5_Witness ==
    /\ RunAllReturned /\ ~parallel /\ ctxErr = ""
    /\ Len(results) = 3
    /\ probes[1].err # ""
    /\ results[1].Error # ""
    /\ results[2].Error = ""
    /\ results[3].Error # ""

\* C6: in serial mode, when the context ended after k probes had started and
\* before the next one began (k less than the number of connections), RunAll
\* returns the context's error and exactly k Outcomes, each the Outcome of a
\* probe that ran to its return, and no other probe was started
C6_SerialCancelStopsSweep ==
    (/\ RunAllReturned /\ ~parallel
     /\ startedAtCancel >= 0
     /\ startedAtCancel < Len(connections)) =>
        /\ retErr = ctxErr
        /\ retErr # ""
        /\ Len(results) = startedAtCancel
        /\ Started = 1..startedAtCancel
        /\ \A j \in 1..Len(results) :
              /\ probes[j].pc = "done"
              /\ results[j].ConnectionName = connections[j].Name
              /\ results[j].Error # "" \/ results[j].ServerName # ""

C6_Witness ==
    /\ RunAllReturned /\ ~parallel
    /\ Len(connections) = 3
    /\ startedAtCancel = 1
    /\ Len(results) = 1
    /\ retErr = "context canceled"

\* C7: in parallel mode RunAll returns only after every probe it launched has
\* finished, cancelled context or not, with a nil error and exactly one
\* Outcome per connection, in any order
C7_ParallelJoinsAll ==
    (RunAllReturned /\ parallel) =>
        /\ \A i \in DOMAIN probes : probes[i].pc = "done"
        /\ retErr = ""
        /\ Len(results) = Len(connections)
        /\ NoDuplicateNames(results)
        /\ {results[i].ConnectionName : i \in 1..Len(results)} =
              {connections[i].Name : i \in 1..Len(connections)}

C7_Witness ==
    /\ RunAllReturned /\ parallel
    /\ ctxErr # ""
    /\ startedAtCancel = 1
    /\ Len(results) = 3
    /\ results[1].ConnectionName = connections[3].Name
    /\ results[3].ConnectionName = connections[1].Name

Populated(r) == 0 \notin Numerics(r)
\* the Outcomes Runner.Run returned and the ones RunAll collected
Outcomes ==
    {probes[i].result : i \in RunReturns}
    \cup {results[i] : i \in 1..Len(results)}
    \cup {resultsChan[i] : i \in 1..Len(resultsChan)}

\* C9 (as claimed): every Outcome either has an Error and all numeric fields
\* zero, or has no Error and all numeric fields populated
C9_ErrorXorPopulated ==
    \A r \in Outcomes :
        \/ r.Error # "" /\ Numerics(r) = {0}
        \/ r.Error = "" /\ Populated(r)

\* C9 (amended): an Outcome with an Error has all numeric fields zero and no
\* server; an Outcome without an Error names its server and has a duration,
\* its latency and jitter are both set or both zero, and its packet loss is
\* always zero
C9_ErrorMeansZeroNumerics ==
    \A r \in Outcomes :
        /\ r.Error # "" => Numerics(r) = {0} /\ r.ServerName = ""
        /\ r.Error = "" =>
              /\ r.ServerName # ""
              /\ r.Duration # 0
              /\ r.PacketLossPct = 0
              /\ r.LatencyMs = 0 <=> r.JitterMs = 0

C9_Witness ==
    /\ RunAllReturned
    /\ \E i, j \in 1..Len(results) :
          /\ results[i].Error # ""
          /\ results[j].Error = ""
          /\ results[j].LatencyMs = 0
          /\ results[j].DownloadMbps # 0

\* C10: when the job's sweep completed (RunAll returned no error) and the job
\* has returned, every Outcome of the sweep, failed ones included, went to the
\* metrics update once and to SaveResult once, in sweep order
C10_SinkGetsEveryOutcomeOnce ==
    (call.op = "RunWithContext" /\ pc = "done" /\ retErr = "") =>
        /\ sink.metrics = results
        /\ Len(sink.saves) = Len(results)
        /\ \A i \in 1..Len(results) :
              /\ sink.saves[i].ConnectionName = results[i].ConnectionName
              /\ sink.saves[i].Error = results[i].Error
        /\ sink.savedCount + sink.errorCount = Len(results)

C10_Witness ==
    /\ call.op = "RunWithContext" /\ pc = "done" /\ retErr = ""
    /\ Len(results) = 2
    /\ results[1].Error # ""
    /\ results[2].Error = ""
    /\ Len(sink.saves) = 2
    /\ sink.errorCount = 1


\* C11: a Start made while the Scheduler is Running fails with the
\* already-running error and changes nothing: no cron entry is added, the job
\* id, the cron loop and the Running state stay as they were
C11_SecondStartRejected ==
    [][(Start /\ running) =>
          /\ lastCall' = [op |-> "Start", err |-> "scheduler already running"]
          /\ UNCHANGED <<running, jobID, entries, cronRunning, sweeps>>]_vars

C11_Witness ==
    /\ lastCall = [op |-> "Start", err |-> "scheduler already running"]
    /\ running
    /\ entries = 1
    /\ jobID = 1

SomeSweepFailed ==
    \E i \in 1..Len(sweeps) : sweeps[i].state = "done" /\ sweeps[i].outcome # "ok"

\* C13: once a sweep has ended with failed Outcomes or failed as a whole, the
\* Scheduler, while Running, still has its cron loop going with the job
\* registered, so that a timer fire can and does start a sweep
C13_FailedSweepKeepsSchedule ==
    (running /\ mu = "free" /\ SomeSweepFailed) =>
        /\ cronRunning
        /\ entries >= 1
        /\ Len(sweeps) + entries <= MaxSweeps => ENABLED TimerFire

C13_Witness ==
    /\ running /\ mu = "free"
    /\ Len(sweeps) = 3
    /\ sweeps[1].state = "done" /\ sweeps[1].outcome = "error"
    /\ sweeps[2].state = "done" /\ sweeps[2].outcome = "failed outcomes"
    /\ sweeps[3].origin = "cron" /\ sweeps[3].state = "running"


C15_RunConnectionNotFound ==
    call.op = "RunConnection" =>
        /\ \A i \in Started : connections[i].Name = call.name
        /\ pc = "done" =>
              /\ (retErr = "connection not found") <=> (call.name \notin EnabledNames)
              /\ call.name \notin EnabledNames => (Started = {} /\ retResult = NoResult)
              /\ call.name \in EnabledNames => Cardinality(Started) = 1

\* RunConnection was asked for a connection that is configured but disabled
C15_Witness ==
    /\ call.op = "RunConnection"
    /\ pc = "done"
    /\ \E i \in 1..Len(configs) : configs[i].Name = call.name /\ ~configs[i].Enabled
    /\ retErr = "connection not found"
    /\ Started = {}

\* C16: NewMultiWANRunner given an empty list, or a list with no enabled
\* connection, fails with the no-enabled-connections error and hands back no
\* runner: nothing can be run afterwards; it fails in no other case
C16_NoEnabledConnectionsFails ==
    /\ (pc # "new" /\ EnabledNames = {}) =>
          /\ pc = "failed"
          /\ retErr = "no enabled connections found"
          /\ connections = <<>> /\ probes = <<>>
          /\ ~ENABLED RunAll /\ ~ENABLED RunConnection
          /\ \A p \in BOOLEAN : ~ENABLED SetParallel(p)
    /\ pc = "failed" => EnabledNames = {}

\* the constructor refused a list of two connections, both disabled
C16_Witness ==
    /\ pc = "failed"
    /\ Len(configs) = 2
    /\ \A i \in 1..Len(configs) : ~configs[i].Enabled
    /\ retErr = "no enabled connections found"

\* the connections of the runner whose source address is an IP literal that
\* is on no interface of the host
Unassignable ==
    {i \in 1..Len(connections) :
        /\ connections[i].SourceIP # ""
        /\ ParsesAsIP(connections[i].SourceIP)
        /\ ~Assignable(connections[i].SourceIP)}

\* C20: an enabled connection whose source address is a valid IP literal that
\* is not on the host is accepted by the constructor with a warning; its probe
\* returns an Outcome with an Error and all numeric fields zero; and the sweep
\* it belongs to still returns without error with one Outcome per connection
C20_UnassignableSourceIsolated ==
    /\ pc # "new" =>
          \A i \in 1..Len(configs) :
             (/\ configs[i].Enabled
              /\ configs[i].SourceIP # ""
              /\ validateSourceIP(configs[i].SourceIP) = "IP not found on any interface") =>
                 /\ pc # "failed"
                 /\ \E j \in 1..Len(connections) : connections[j] = configs[i]
                 /\ configs[i].Name \in warned
    /\ \A i \in Unassignable :
          /\ probes[i].pc \in {"ret", "done"} =>
                /\ probes[i].result.Error # ""
                /\ Numerics(probes[i].result) = {0}
          /\ (RunAllReturned /\ (parallel \/ ctxErr = "")) =>
                /\ retErr = ""
                /\ Len(results) = Len(connections)
                /\ \E j \in 1..Len(results) :
                      /\ results[j].ConnectionName = connections[i].Name
                      /\ results[j].Error # ""
                      /\ Numerics(results[j]) = {0}

\* a serial sweep over A, B and C (source 10.255.255.255) came back with C's
\* failed Outcome next to A's successful one
C20_Witness ==
    /\ RunAllReturned /\ ~parallel /\ ctxErr = ""
    /\ Unassignable = {3}
    /\ "C" \in warned
    /\ Len(results) = 3
    /\ results[1].Error = ""
    /\ results[3].ConnectionName = "C"
    /\ results[3].Error # ""
    /\ Numerics(results[3]) = {0}

\* positions in the dial's events where a socket was marked
Marks == {k \in 1..Len(dial.events) : dial.events[k].marked}
\* event k belongs to the same socket as event j and comes before it
SameSocketBefore(k, j) ==
    k < j /\ dial.events[k].attempt = dial.events[j].attempt

\* C17: on every socket a dial marks, the marking is applied after the socket
\* was created and before its connection handshake, never after; and with
\* DSCP > 0 on the build that marks, every socket that connects was marked
\* before it did
C17_MarkedBetweenSocketAndConnect ==
    /\ \A j \in Marks :
          /\ \E k \in 1..Len(dial.events) :
                SameSocketBefore(k, j) /\ dial.events[k].kind = "socket"
          /\ ~\E k \in 1..Len(dial.events) :
                SameSocketBefore(k, j) /\ dial.events[k].kind = "connect"
    /\ (dial.dscp > 0 /\ dial.platform = "unix") =>
          \A j \in 1..Len(dial.events) :
             dial.events[j].kind = "connect" =>
                \E k \in Marks : SameSocketBefore(k, j)

\* a dial with DSCP 46 connected on its second address, both sockets marked
C17_Witness ==
    /\ dial.pc = "connected"
    /\ dial.dscp = 46 /\ dial.platform = "unix"
    /\ dial.attempt = 2
    /\ Cardinality(Marks) = 2
    /\ dial.events[Len(dial.events)].kind = "connect"

\* C18: for every DSCP q in 0..63: when q > 0 the marking applied to a socket
\* is q << 2, which fits the TOS byte and decodes back (>> 2) to q; when q = 0
\* no control function is installed, no socket is marked and the logger gets
\* no word of a marking
C18_MarkingIsShiftedDSCP ==
    (dial.dscp \in 0..MaxDSCP /\ dial.pc # "new") =>
        /\ \A j \in Marks :
              /\ dial.dscp > 0
              /\ dial.events[j].tos = DSCPToTOS(dial.dscp)
              /\ dial.events[j].tos \in 0..255
              /\ TOSToDSCP(dial.events[j].tos) = dial.dscp
        /\ dial.dscp = 0 =>
              /\ ~dial.control
              /\ \A j \in 1..Len(dial.events) : dial.events[j].kind # "control"
              /\ \A j \in 1..Len(dial.logs) : dial.logs[j] = "Binding to source IP"

\* a dial with DSCP 46 marked its socket with TOS 184, which decodes to 46
C18_Witness ==
    /\ dial.dscp = 46
    /\ dial.pc = "connected"
    /\ \E j \in Marks : dial.events[j].tos = 184 /\ TOSToDSCP(dial.events[j].tos) = 46

\* a dial with DSCP 0 connected with no marking and nothing logged
C18_WitnessUnmarked ==
    /\ dial.dscp = 0
    /\ dial.pc = "connected"
    /\ dial.logger
    /\ Marks = {} /\ dial.logs = <<>>

\* positions in the dial's events where the control function ran and the
\* socket was left unmarked
Unmarked ==
    {k \in 1..Len(dial.events) :
        dial.events[k].kind = "control" /\ ~dial.events[k].marked}

\* C19 (as claimed): whenever the marking could not be applied to a socket, the
\* control function returned no error, the dial did not fail on that account,
\* and the logger was told that the marking was skipped
C19_UnmarkableDialProceeds ==
    /\ \A k \in Unmarked :
          /\ dial.events[k].err = ""
          /\ dial.logger =>
                \E j \in 1..Len(dial.logs) :
                   dial.logs[j] = "DSCP marking is not supported on Windows, skipping"
    /\ dial.pc = "failed" =>
          dial.firstErr \notin {"failed to set DSCP", "failed to access raw connection"}

\* what the claim describes, as the Windows build does it: the control function
\* left the socket unmarked, said so, and the dial connected
C19_WindowsSkips ==
    /\ dial.platform = "windows" /\ dial.logger
    /\ dial.pc = "connected"
    /\ Unmarked # {}
    /\ dial.logs = <<"DSCP marking is not supported on Windows, skipping">>

\* connection c asks for a dialer NewDSCPDialer must refuse
BadDialer(c) ==
    \/ c.DSCP < 0
    \/ c.DSCP > 63
    \/ c.SourceIP # "" /\ c.SourceIP \notin {"192.168.2.100", "10.255.255.255"}

\* C21: NewDSCPDialer refuses exactly the connections whose DSCP is outside
\* 0..63 or whose non-empty source address is no IP literal; Run then returns
\* at once with the refusal as its error and in the Outcome's Error, no field
\* measured, and the measurement client is never called for that connection
C21_BadDialerFailsBeforeClient ==
    \A i \in Started :
       /\ BadDialer(connections[i]) <=>
             probes[i].result.Error \in
                {"failed to create DSCP dialer: DSCP value must be between 0 and 63",
                 "failed to create DSCP dialer: invalid source IP address"}
       /\ BadDialer(connections[i]) =>
             /\ probes[i].pc \in {"ret", "done"}
             /\ probes[i].err \in {"DSCP value must be between 0 and 63",
                                   "invalid source IP address"}
             /\ Numerics(probes[i].result) = {0}
             /\ probes[i].result.ServerName = ""
       /\ ~BadDialer(connections[i]) =>
             (probes[i].pc \in {"ret", "done"} => probes[i].result.Error # ""
                 \/ probes[i].result.ServerName # "")

\* RunConnection handed back the Outcome of a connection with DSCP 64
C21_Witness ==
    /\ call.op = "RunConnection" /\ pc = "done"
    /\ connections[1].DSCP = 64
    /\ retErr = "DSCP value must be between 0 and 63"
    /\ retResult.Error = "failed to create DSCP dialer: DSCP value must be between 0 and 63"
    /\ retResult.ServerName = ""

\* C22 (as claimed): every Outcome Run returned and every Outcome RunAll or
\* RunConnection collected, failed ones included, carries the start time and
\* the elapsed duration of its probe
C22_OutcomesCarryTimes ==
    /\ \A o \in Outcomes : o.Timestamp # 0 /\ o.Duration # 0
    /\ (call.op = "RunConnection" /\ pc = "done" /\ retResult # NoResult) =>
          (retResult.Timestamp # 0 /\ retResult.Duration # 0)

\* what the code does for a probe that ran to its end: both are there
C22_SuccessCarriesTimes ==
    \A o \in Outcomes : o.Error = "" => (o.Timestamp # 0 /\ o.Duration # 0)

\* a serial RunAll is under way or has returned
SerialSweep ==
    call.op = "RunWithContext" /\ ~parallel /\ pc \in {"seq", "probing", "returned", "done"}
\* the probes that have entered Run and not yet been collected
InFlight == {i \in DOMAIN probes : probes[i].pc \notin {"idle", "launched", "done"}}

\* C23: the runner is serial unless SetParallel(true) was called; in a serial
\* RunAll at most one probe is in flight, a connection's probe starts only
\* after the probes of all connections before it were collected, and
\* results[i] is the Outcome of the i-th connection
C23_SerialInOrder ==
    /\ [](pc = "new" => ~parallel)
    /\ [][(~parallel /\ parallel') => (pc = "ready" /\ SetParallel(TRUE))]_vars
    /\ [](SerialSweep =>
            /\ Cardinality(InFlight) <= 1
            /\ \A i \in Started : \A j \in 1..(i - 1) : probes[j].pc = "done"
            /\ \A i \in InFlight : i = idx /\ pc = "probing"
            /\ \A i \in 1..Len(results) :
                  results[i].ConnectionName = connections[i].Name)

\* a serial sweep over three connections with the second probe under way
C23_Witness ==
    /\ SerialSweep
    /\ Len(connections) = 3
    /\ pc = "probing" /\ idx = 2
    /\ probes[1].pc = "done" /\ probes[2].pc = "measure" /\ probes[3].pc = "idle"
    /\ Names(results) = <<"A">>

\* C24 (as claimed): a failed ping, download or upload test leaves its field
\* at zero, Run goes on to the next sub-measurement and the Outcome is not
\* marked failed; a failed server fetch or selection sets Error and runs no
\* sub-measurement
C24_FailedSubMeasurementIsZero ==
    [][\A i \in 1..MaxConns :
          /\ PingStep(i, FALSE) =>
                /\ probes'[i].result.LatencyMs = 0 /\ probes'[i].result.JitterMs = 0
                /\ probes'[i].pc = "download" /\ probes'[i].result.Error = ""
          /\ (\E dl \in Rates : DownloadStep(i, FALSE, dl)) =>
                /\ probes'[i].result.DownloadMbps = 0
                /\ probes'[i].pc = "upload" /\ probes'[i].result.Error = ""
          /\ (\E ul \in Rates : UploadStep(i, FALSE, ul)) =>
                /\ probes'[i].result.UploadMbps = 0
                /\ probes'[i].pc = "ret" /\ probes'[i].result.Error = ""
                /\ probes'[i].err = ""
          /\ (RunFetch(i) /\ probes'[i].pc # "measure") =>
                /\ probes'[i].pc = "ret"
                /\ probes'[i].result.Error # "" /\ probes'[i].err # ""
                /\ Numerics(probes'[i].result) = {0}]_vars

\* the one-step measurement of the sweep model is the three steps in a row
MeasureStepsAgree ==
    \A i \in DOMAIN probes :
       probes[i].pc = "measure" =>
          \A pingOK \in BOOLEAN, dl \in Rates, ul \in Rates :
             AfterUpload(AfterDownload(AfterPing(probes[i], pingOK), dl), ul)
                = RunMeasured(probes[i], pingOK, dl, ul)

\* C24 (amended): a failed ping leaves latency and jitter at zero; a failed
\* download or upload test is only logged and its field takes the rate the
\* client reports, zero or not; in every case Run goes on to the next
\* sub-measurement and the Outcome is not marked failed; a failed server fetch
\* or selection sets Error, returns an error and runs no sub-measurement
C24_BestEffortSubMeasurements ==
    /\ [][\A i \in 1..MaxConns :
             /\ PingStep(i, FALSE) =>
                   /\ probes'[i].result.LatencyMs = 0 /\ probes'[i].result.JitterMs = 0
                   /\ probes'[i].pc = "download" /\ probes'[i].result.Error = ""
                   /\ probes'[i].err = ""
             /\ \A dl \in Rates : DownloadStep(i, FALSE, dl) =>
                   /\ probes'[i].result.DownloadMbps = dl
                   /\ probes'[i].pc = "upload" /\ probes'[i].result.Error = ""
                   /\ probes'[i].err = ""
             /\ \A ul \in Rates : UploadStep(i, FALSE, ul) =>
                   /\ probes'[i].result.UploadMbps = ul
                   /\ probes'[i].pc = "ret" /\ probes'[i].result.Error = ""
                   /\ probes'[i].err = ""
             /\ (RunFetch(i) /\ probes'[i].pc # "measure") =>
                   /\ probes'[i].pc = "ret"
                   /\ probes'[i].result.Error # "" /\ probes'[i].err # ""
                   /\ Numerics(probes'[i].result) = {0}]_vars
    /\ [](\A i \in DOMAIN probes :
             probes[i].pc \in {"download", "upload"} => probes[i].result.Error = "")
    /\ []MeasureStepsAgree

\* Run came back after a ping that failed: latency zero, both rates measured,
\* the Outcome not failed
C24_Witness ==
    \E i \in DOMAIN probes :
       /\ probes[i].pc = "ret"
       /\ probes[i].result.ServerName = "srv"
       /\ probes[i].result.LatencyMs = 0
       /\ probes[i].result.DownloadMbps = 1 /\ probes[i].result.UploadMbps = 1
       /\ probes[i].result.Error = "" /\ probes[i].err = ""

\* C25 (as claimed): once the context is cancelled, Run starts no further
\* sub-measurement (ping, download, upload) of the connection it is probing
C25_NoSubMeasurementAfterCancel ==
    [][(\E i \in 1..MaxConns : RunPing(i) \/ RunDownload(i) \/ RunUpload(i))
          => ctxErr = ""]_vars

\* what the code does: the serial loop is the only place that looks at the
\* context, so after a cancellation no further connection is entered there
C25_SerialLoopStopsAtCancel ==
    [][(SeqIter /\ ctxErr # "") => UNCHANGED probes]_vars

\* C26 (as claimed): whatever Start and Stop calls were made, the cron holds
\* at most one speedtest entry, so one tick starts at most one sweep
C26_AtMostOneEntry ==
    /\ [](entries <= 1)
    /\ [][TimerFire => Len(sweeps') <= Len(sweeps) + 1]_vars

\* C27 (as claimed): TriggerNow starts a sweep only while the Scheduler is
\* Running
C27_TriggerNowOnlyWhileRunning ==
    [][(TriggerNow /\ sweeps' # sweeps) => running]_vars

\* what the code does: TriggerNow starts a sweep whenever a Start has ever
\* registered the job
C27_TriggerNowNeedsJobID ==
    [][TriggerNow => ((sweeps' # sweeps) <=> (jobID # 0))]_vars

\* C28: the job is all-or-nothing towards the sink: when RunAll returned an
\* error nothing of the sweep, the Outcomes already collected included, went
\* to SaveResult or the metrics; when it returned none, every Outcome went to
\* both once, whether or not an earlier SaveResult failed
C28_SinkAllOrNothing ==
    /\ (call.op = "RunWithContext" /\ pc # "done") => sink = EmptySink
    /\ (call.op = "RunWithContext" /\ pc = "done") =>
          /\ retErr # "" => sink = EmptySink
          /\ retErr = "" =>
                /\ Len(sink.metrics) = Len(results)
                /\ Len(sink.saves) = Len(results)
                /\ sink.savedCount + sink.errorCount = Len(results)
                /\ sink.errorCount <= Len(results)

\* a serial sweep was cut short after two Outcomes and none of them was saved
C28_Witness ==
    /\ call.op = "RunWithContext" /\ pc = "done"
    /\ retErr = "context deadline exceeded"
    /\ Len(results) = 2
    /\ sink = EmptySink

\* every Outcome of a finished sweep was offered to SaveResult although the
\* saves failed
C28_WitnessSaveFailed ==
    /\ call.op = "RunWithContext" /\ pc = "done" /\ retErr = ""
    /\ Len(results) = 3
    /\ sink.errorCount = 2 /\ sink.savedCount = 1
    /\ Len(sink.saves) = 3

\* the probes of a parallel sweep whose Run has not returned yet
ProbesRunning ==
    {i \in DOMAIN probes : probes[i].pc \in {"launched", "fetch", "measure"}}

\* C29: in runParallel a worker whose Run has returned can always send: the
\* channel, buffered to the number of connections, holds one result per
\* finished worker and is never full before the last send; so runParallel
\* waits for nothing but probes still running, and when all workers are done
\* the wait ends with exactly n results in the channel
C29_ParallelNeverBlocks ==
    pc = "wait" =>
        /\ \A i \in DOMAIN probes : probes[i].pc = "ret" => ENABLED WorkerSend(i)
        /\ Len(resultsChan) = Cardinality({i \in DOMAIN probes : probes[i].pc = "done"})
        /\ Len(resultsChan) <= Len(connections)
        /\ ProbesRunning = {} =>
              \/ \E i \in DOMAIN probes : ENABLED WorkerSend(i)
              \/ /\ ENABLED ParCollect
                 /\ Len(resultsChan) = Len(connections)

\* three workers have sent, the channel is full and the wait is over
C29_Witness ==
    /\ pc = "wait"
    /\ Len(connections) = 3
    /\ \A i \in DOMAIN probes : probes[i].pc = "done"
    /\ Len(resultsChan) = 3

\* C30: a Stop that has begun returns once the sweeps the cron loop started
\* have ended: while Stop holds the mutex every running sweep can still finish
\* (a job never takes the mutex), Start, TriggerNow, GetStatus, IsRunning and
\* NextRun wait, and they can go on as soon as Stop has released it
C30_StopReturns ==
    /\ [](mu = "Stop" =>
            /\ \A i \in RunningSweeps : ENABLED SweepFinish(i)
            /\ ~ENABLED Start /\ ~ENABLED TriggerNow
            /\ ~ENABLED GetStatus /\ ~ENABLED IsRunning /\ ~ENABLED NextRun
            /\ JobWaiter = {} => ENABLED StopReturn)
    /\ [](mu = "free" => ENABLED GetStatus /\ ENABLED IsRunning /\ ENABLED NextRun)
    /\ (mu = "Stop") ~> (mu = "free" /\ ~running /\ lastCall.op = "Stop")

\* Stop holds the mutex and waits for two sweeps of the cron loop while a
\* sweep TriggerNow started is running as well
C30_Witness ==
    /\ mu = "Stop"
    /\ Cardinality(JobWaiter) = 2
    /\ \E i \in RunningSweeps : sweeps[i].origin = "manual"

====
